---------------------------- MODULE Spec2Model ----------------------------
(***************************************************************************)
(* Model of the PDF navigation tools of pdf_reader_mcp: the outline        *)
(* (get_toc / detect_headings), the fuzzy section lookup                   *)
(* (find_section_pages) and the bounded readers (pdf_read_pages,           *)
(* pdf_read_section).                                                      *)
(*                                                                         *)
(* A Python str is a sequence of one-character strings; a document is the  *)
(* record of what PyMuPDF answers for it: its page count, its native       *)
(* outline, the raw text of each page and the text blocks of each page.    *)
(* A tool call is a request in flight (req) that one action answers        *)
(* (resp); reads lists the 0-based pages whose text the call fetched.      *)
(* pages_with_hits and skipped are the tallies pdf_search and              *)
(* pdf_get_page_images keep while they run.  The document cache is         *)
(* doc_cache, used by the callers of open_doc (callers); opens counts the  *)
(* fitz.open calls made for each key.                                      *)
(***************************************************************************)
EXTENDS Integers, Sequences, FiniteSets, TLC

VARIABLES doc, req, resp, reads, best_idx, pages_with_hits, skipped,
          doc_cache, callers, opens

vars == <<doc, req, resp, reads, best_idx, pages_with_hits, skipped,
          doc_cache, callers, opens>>

\* the state of one tool call
callVars == <<doc, req, resp, reads, best_idx, pages_with_hits, skipped>>

\* the state of the document cache and of its callers
cacheVars == <<doc_cache, callers, opens>>

\* the threads that call open_doc
Callers == {"t1", "t2"}

\* a caller that is in no call and has made none: calls counts its calls of
\* open_doc, returned lists what they returned or raised
Idle == [pc |-> "idle", calls |-> 0, returned |-> <<>>]

\* no tool call has kept a tally yet
NoTallies == pages_with_hits = <<>> /\ skipped = 0

\* an empty cache, no caller in open_doc and no file opened yet
NoCallers ==
    /\ doc_cache = <<>>
    /\ callers = [c \in Callers |-> Idle]
    /\ opens = <<>>

-----------------------------------------------------------------------------
(* Python str operations, on sequences of characters.                      *)

\* str.isspace() of one character (the whitespace str.strip, str.split and \s use)
IsSpace(c) == c \in {" ", "\t", "\n"}

IsUpper(c) == c \in {"A", "B", "C", "X"}

IsDigit(c) == c \in {"0", "1", "2", "3", "4", "5", "6", "7", "8", "9"}

\* str.lower() of one character
LowerChar(c) ==
    CASE c = "A" -> "a"
      [] c = "B" -> "b"
      [] c = "C" -> "c"
      [] c = "X" -> "x"
      [] OTHER   -> c

\* str.lower()
Lower(s) == [i \in 1..Len(s) |-> LowerChar(s[i])]

RECURSIVE LStrip(_)
LStrip(s) ==
    IF s = <<>> THEN s
    ELSE IF IsSpace(Head(s)) THEN LStrip(Tail(s)) ELSE s

RECURSIVE RStrip(_)
RStrip(s) ==
    IF s = <<>> THEN s
    ELSE IF IsSpace(s[Len(s)]) THEN RStrip(SubSeq(s, 1, Len(s) - 1)) ELSE s

\* str.strip()
Strip(s) == RStrip(LStrip(s))

\* re.sub(r"\s+", "", s)
RemoveSpace(s) == SelectSeq(s, LAMBDA c : ~IsSpace(c))

\* a in b, for two str
IsSubstring(a, b) ==
    \E i \in 0..(Len(b) - Len(a)) : SubSeq(b, i + 1, i + Len(a)) = a

\* set(s.split()): the maximal runs of non-whitespace characters of s
SplitWords(s) ==
    { SubSeq(s, i, j) : <<i, j>> \in
        { p \in (1..Len(s)) \X (1..Len(s)) :
            /\ p[1] <= p[2]
            /\ \A k \in p[1]..p[2] : ~IsSpace(s[k])
            /\ (p[1] = 1 \/ IsSpace(s[p[1] - 1]))
            /\ (p[2] = Len(s) \/ IsSpace(s[p[2] + 1])) } }

Max(a, b) == IF a >= b THEN a ELSE b

Min(a, b) == IF a <= b THEN a ELSE b

\* the smallest element of a non-empty set of integers
MinOf(S) == CHOOSE x \in S : \A y \in S : x <= y

\* s[:n] of a list, n >= 0
Prefix(s, n) == SubSeq(s, 1, Min(n, Len(s)))

-----------------------------------------------------------------------------
(* pdf_read_pages                                                          *)

\* the cap on the pages of one pdf_read_pages call
MaxReadPages == 10

\* "(no text on this page)"
NoTextPlaceholder == <<"(no text on this page)">>

\* end_page after "if end_page <= 0: end_page = start_page"
DefaultEndNoZero(start_page, end_page) ==
    IF end_page < 0 THEN start_page ELSE end_page

DefaultEnd(start_page, end_page) ==
    IF end_page <= 0 THEN start_page ELSE end_page

\* "start_page < 1 or start_page > total"
StartOutOfRangeOffByOne(start_page, total) ==
    start_page < 1 \/ start_page > total + 1

StartOutOfRange(start_page, total) ==
    start_page < 1 \/ start_page > total

\* "if end_page > total: end_page = total"
ClampEnd(end_page, total) ==
    IF end_page > total THEN total ELSE end_page

\* end_page after the cap: "if page_count > 10: end_page = start_page + 9"
CapEndOffByOne(start_page, end_page) ==
    IF end_page - start_page + 1 > MaxReadPages
    THEN start_page + MaxReadPages
    ELSE end_page

CapEnd(start_page, end_page) ==
    IF end_page - start_page + 1 > MaxReadPages
    THEN start_page + (MaxReadPages - 1)
    ELSE end_page

\* page_count after the cap
CapCount(start_page, end_page) ==
    IF end_page - start_page + 1 > MaxReadPages
    THEN MaxReadPages
    ELSE end_page - start_page + 1

\* the two entries a reader appends to parts for page i (0-based): the
\* "--- Page i+1 ---" line and the trimmed text or the placeholder
PagePart(d, i) ==
    LET text == Strip(d.text[i + 1])
    IN  [page |-> i + 1,
         body |-> IF text # <<>> THEN text ELSE NoTextPlaceholder]

\* range(a, b) as a sequence
Range(a, b) == [k \in 1..Max(b - a, 0) |-> a + k - 1]

RECURSIVE SumLen(_, _)
\* total_chars over the pages of idx
SumLen(d, idx) ==
    IF idx = <<>> THEN 0
    ELSE Len(Strip(d.text[Head(idx) + 1])) + SumLen(d, Tail(idx))

\* the value pdf_read_pages returns and the pages it reads, for an opened d
ReadPagesResult(d, start_page, end_page0) ==
    LET total == d.npages
        end1  == DefaultEnd(start_page, end_page0)
    IN  IF StartOutOfRange(start_page, total)
        THEN [resp  |-> [kind |-> "ERROR_start_out_of_range",
                         start_page |-> start_page, total |-> total],
              reads |-> <<>>]
        ELSE IF end1 < start_page
        THEN [resp  |-> [kind |-> "ERROR_end_before_start",
                         end_page |-> end1, start_page |-> start_page],
              reads |-> <<>>]
        ELSE
            LET end2       == ClampEnd(end1, total)
                page_count == CapCount(start_page, end2)
                end3       == CapEnd(start_page, end2)
                idx        == Range(start_page - 1, end3)
            IN  [resp  |-> [kind        |-> "pages",
                            start_page  |-> start_page,
                            end_page    |-> end3,
                            total       |-> total,
                            page_count  |-> page_count,
                            total_chars |-> SumLen(d, idx),
                            parts       |-> [k \in 1..Len(idx) |-> PagePart(d, idx[k])]],
                 reads |-> idx]

Pending == [kind |-> "pending"]

\* a call returns r.resp after reading the pages r.reads
Return(r) == resp' = r.resp /\ reads' = r.reads

pdf_read_pages ==
    /\ req.tool = "pdf_read_pages"
    /\ resp = Pending
    /\ Return(ReadPagesResult(doc, req.start_page, req.end_page))
    /\ UNCHANGED <<doc, req, best_idx>>
    /\ UNCHANGED <<pages_with_hits, skipped>>
    /\ UNCHANGED cacheVars

-----------------------------------------------------------------------------
(* The documents and requests of the pdf_read_pages specification.         *)

\* the largest page count of a document read by page
MaxPages == 15

\* how far past the document a requested end page may lie
EndSlack == 6

\* the raw text of page p of a plain document: empty, blank and lettered
\* pages alternate
PlainText(p) ==
    CASE p % 3 = 0 -> <<>>
      [] p % 3 = 1 -> <<" ", "a", "b", "\n">>
      [] OTHER     -> <<" ", "\n">>

\* a document of n pages with no outline and no text blocks
PlainDoc(n) ==
    [npages  |-> n,
     outline |-> <<>>,
     text    |-> [p \in 1..n |-> PlainText(p)],
     blocks  |-> [p \in 1..n |-> <<>>]]

InitPages ==
    /\ doc \in { PlainDoc(n) : n \in 0..MaxPages }
    /\ req \in [tool : {"pdf_read_pages"},
                start_page : -1..(MaxPages + 2),
                end_page : -2..(MaxPages + EndSlack)]
    /\ resp = Pending
    /\ reads = <<>>
    /\ best_idx = -1
    /\ NoTallies
    /\ NoCallers

NextPages == pdf_read_pages

SpecPages == InitPages /\ [][NextPages]_vars

-----------------------------------------------------------------------------
(* detect_headings: the outline inferred from font sizes.                  *)
(* A block is [type, lines], a line is [spans], a span is [text, size,     *)
(* flags]; sizes are whole points.                                         *)

RECURSIVE Flatten(_)
\* the concatenation of a sequence of sequences
Flatten(ss) == IF ss = <<>> THEN <<>> ELSE Head(ss) \o Flatten(Tail(ss))

\* bit 4 of a span's flags: bold
BoldBit == 16

IsBoldSpan(span) == (span.flags \div BoldBit) % 2 = 1

\* the lines of the text blocks (type 0) of 0-based page page_idx, each with its page
PageLines(d, page_idx) ==
    LET blocks == d.blocks[page_idx + 1]
        kept   == SelectSeq(blocks, LAMBDA block : block.type = 0)
        lines  == Flatten([b \in 1..Len(kept) |-> kept[b].lines])
    IN  [k \in 1..Len(lines) |-> [spans |-> lines[k].spans, page |-> page_idx]]

\* every line of every text block, in page order
AllLines(d) == Flatten([p \in 1..d.npages |-> PageLines(d, p - 1)])

\* font_sizes: the size of every span of every line
FontSizes(d) ==
    LET lines == AllLines(d)
    IN  Flatten([k \in 1..Len(lines) |->
                    [j \in 1..Len(lines[k].spans) |-> lines[k].spans[j].size]])

RECURSIVE MaxSize(_)
\* max_size of a line: the largest span size, 0 with no span
MaxSize(spans) ==
    IF spans = <<>> THEN 0
    ELSE Max(spans[Len(spans)].size, MaxSize(SubSeq(spans, 1, Len(spans) - 1)))

\* the entry of spans_info for one line (its text not yet tested for emptiness)
LineInfo(line) ==
    [text |-> Strip(Flatten([j \in 1..Len(line.spans) |-> line.spans[j].text])),
     size |-> MaxSize(line.spans),
     bold |-> \E j \in 1..Len(line.spans) : IsBoldSpan(line.spans[j]),
     page |-> line.page]

\* spans_info: the lines whose trimmed text is not empty
SpansInfo(d) ==
    LET lines == AllLines(d)
    IN  SelectSeq([k \in 1..Len(lines) |-> LineInfo(lines[k])],
                  LAMBDA info : info.text # <<>>)

\* the k-th smallest element of a non-empty sequence of numbers
KthSmallest(sizes, k) ==
    CHOOSE x \in { sizes[i] : i \in 1..Len(sizes) } :
        /\ Cardinality({ i \in 1..Len(sizes) : sizes[i] < x }) < k
        /\ Cardinality({ i \in 1..Len(sizes) : sizes[i] <= x }) >= k

\* twice statistics.median(sizes): the middle element, or the mean of the
\* two middle elements, of the sorted sizes
Median2(sizes) ==
    LET n == Len(sizes)
    IN  IF n % 2 = 1
        THEN 2 * KthSmallest(sizes, (n \div 2) + 1)
        ELSE KthSmallest(sizes, n \div 2) + KthSmallest(sizes, (n \div 2) + 1)

RECURSIVE SkipDigits(_, _)
\* the first position >= i of s that holds no digit
SkipDigits(s, i) ==
    IF i <= Len(s) /\ IsDigit(s[i]) THEN SkipDigits(s, i + 1) ELSE i

RECURSIVE SkipSpaces(_, _)
\* the first position >= i of s that holds no whitespace
SkipSpaces(s, i) ==
    IF i <= Len(s) /\ IsSpace(s[i]) THEN SkipSpaces(s, i + 1) ELSE i

\* the position after an optional "." at i
SkipDot(s, i) == IF i <= Len(s) /\ s[i] = "." THEN i + 1 ELSE i

\* numbered_heading_re.match(text): ^(\d+\.?\d*\.?\d*)\s+[A-Z]
NumberedHeadingMatch(text) ==
    LET i1 == SkipDigits(text, 1)
        i2 == SkipDigits(text, SkipDot(text, i1))
        i3 == SkipDigits(text, SkipDot(text, i2))
        i4 == SkipSpaces(text, i3)
    IN  /\ i1 > 1
        /\ i4 > i3
        /\ i4 <= Len(text)
        /\ IsUpper(text[i4])

\* a character of the class [A-Z\s:&-]
IsCapsClass(c) == IsUpper(c) \/ IsSpace(c) \/ c \in {":", "&", "-"}

\* uppercase_heading_re.match(text): ^[A-Z][A-Z\s:&-]{4,}$
UppercaseHeadingMatch(text) ==
    /\ Len(text) >= 5
    /\ IsUpper(text[1])
    /\ \A i \in 2..Len(text) : IsCapsClass(text[i])

\* the longest and the shortest text a heading may have
MaxHeadingLen == 120

MinHeadingLen == 2

\* "size >= median_size * 1.5" with > in place of >=
IsLevelOneSizeStrict(size, median2) == 4 * size > 3 * median2

\* "size >= median_size * 1.5", median2 being twice the median
IsLevelOneSize(size, median2) == 4 * size >= 3 * median2

\* the level detect_headings gives a line, 0 when the line is no heading;
\* median2 is twice the median font size, so size >= 1.25 * median is
\* 8 * size >= 5 * median2 and size >= 1.5 * median is 4 * size >= 3 * median2
HeadingLevel(info, median2) ==
    LET text == info.text
        size == info.size
    IN  IF Len(text) > MaxHeadingLen \/ Len(text) < MinHeadingLen THEN 0
        ELSE IF 8 * size >= 5 * median2
            THEN (IF IsLevelOneSize(size, median2) THEN 1 ELSE 2)
        ELSE IF /\ info.bold
                /\ 2 * size >= median2
                /\ (NumberedHeadingMatch(text) \/ UppercaseHeadingMatch(text))
            THEN 1
        ELSE IF NumberedHeadingMatch(text) /\ 2 * size >= median2
            THEN 1
        ELSE 0

detect_headings(d) ==
    LET font_sizes == FontSizes(d)
        spans_info == SpansInfo(d)
    IN  IF font_sizes = <<>> THEN <<>>
        ELSE LET median2  == Median2(font_sizes)
                 headings == SelectSeq(spans_info,
                                LAMBDA info : HeadingLevel(info, median2) # 0)
             IN  [k \in 1..Len(headings) |->
                    [title |-> headings[k].text,
                     page  |-> headings[k].page + 1,
                     level |-> HeadingLevel(headings[k], median2)]]

-----------------------------------------------------------------------------
(* get_toc: the native outline first, the detected headings otherwise.     *)
(* An entry of the native outline is <<level, title, page>>.               *)

\* the entry get_toc makes of a kept native entry, without trimming its title
TocEntryUntrimmed(entry) ==
    [level |-> entry[1], title |-> entry[2], page |-> entry[3]]

TocEntry(entry) ==
    [level |-> entry[1], title |-> Strip(entry[2]), page |-> entry[3]]

get_toc(d) ==
    LET raw_toc == d.outline
    IN  IF raw_toc # <<>>
        THEN LET kept == SelectSeq(raw_toc, LAMBDA entry : Strip(entry[2]) # <<>>)
             IN  [k \in 1..Len(kept) |-> TocEntry(kept[k])]
        ELSE detect_headings(d)

GetTocCall ==
    /\ req.tool = "get_toc"
    /\ resp = Pending
    /\ resp' = [kind |-> "toc", toc |-> get_toc(doc)]
    /\ UNCHANGED <<doc, req, reads, best_idx>>
    /\ UNCHANGED <<pages_with_hits, skipped>>
    /\ UNCHANGED cacheVars

-----------------------------------------------------------------------------
(* The documents of the get_toc specification.                             *)

\* the longest native outline
MaxOutlineLen == 2

\* all sequences over S of length at most n
SeqsUpTo(S, n) == UNION { [1..k -> S] : k \in 0..n }

OutlineTitles == { <<>>, <<" ">>, <<" ", "a", "\t">>, <<"A", "b">> }

OutlineEntries == {1, 2} \X OutlineTitles \X {1, 2}

Span(text, size, flags) == [text |-> text, size |-> size, flags |-> flags]

Line(spans) == [spans |-> spans]

\* body text at 10 points
BodyLine == Line(<<Span(<<"a", "b", " ">>, 10, 0), Span(<<"a", "b">>, 10, 0)>>)

\* the text blocks of a two-page document: a title at 18 points, a heading
\* at 13 points, a bold numbered heading and a blank line at body size,
\* and an image block whose lines do not count
HeadedBlocks ==
    << << [type |-> 0, lines |-> << Line(<<Span(<<"A", "b">>, 18, 0)>>),
                                    BodyLine, BodyLine >>],
          [type |-> 1, lines |-> << Line(<<Span(<<"X", "X">>, 40, 0)>>) >>] >>,
       << [type |-> 0, lines |-> << Line(<<Span(<<"a", " ", "b">>, 13, 0)>>),
                                    BodyLine,
                                    Line(<<Span(<<" ", "\n">>, 10, 0)>>) >>],
          [type |-> 0, lines |-> << Line(<<Span(<<"1", ".">>, 10, BoldBit),
                                           Span(<<" ", "A", "b">>, 10, 0)>>),
                                    BodyLine >>] >> >>

\* body text only: no line is a heading
BodyBlocks ==
    << << [type |-> 0, lines |-> << BodyLine, BodyLine >>] >>, << >> >>

\* an image-only document: no text block
NoBlocks == << << >>, << >> >>

TocDocs ==
    { [npages  |-> 2,
       outline |-> o,
       text    |-> << <<"a", "b">>, <<>> >>,
       blocks  |-> b] :
        o \in SeqsUpTo(OutlineEntries, MaxOutlineLen),
        b \in {HeadedBlocks, BodyBlocks, NoBlocks} }

InitToc ==
    /\ doc \in TocDocs
    /\ req = [tool |-> "get_toc"]
    /\ resp = Pending
    /\ reads = <<>>
    /\ best_idx = -1
    /\ NoTallies
    /\ NoCallers

NextToc == GetTocCall

SpecToc == InitToc /\ [][NextToc]_vars

-----------------------------------------------------------------------------
(* detect_headings called on its own, and its documents: a one-page        *)
(* document of some body lines followed by a few candidate lines.          *)

DetectHeadingsCall ==
    /\ req.tool = "detect_headings"
    /\ resp = Pending
    /\ resp' = [kind |-> "headings", headings |-> detect_headings(doc)]
    /\ UNCHANGED <<doc, req, reads, best_idx>>
    /\ UNCHANGED <<pages_with_hits, skipped>>
    /\ UNCHANGED cacheVars

\* the most candidate lines after the body lines
MaxCandidates == 2

\* a line of one span
PlainLine(text, size, flags) == Line(<<Span(text, size, flags)>>)

\* the body lines: none, three at 10 points (median 10), four at 8 points
\* (median 8) or one at 9 and one at 10 points (median 9.5)
BodyMixes ==
    { <<>>,
      << BodyLine, PlainLine(<<"a", "b">>, 10, 0) >>,
      << PlainLine(<<"a", "b">>, 8, 0), PlainLine(<<"a", "b">>, 8, 0),
         PlainLine(<<"a", "b">>, 8, 0), PlainLine(<<"a", "b">>, 8, 0) >>,
      << PlainLine(<<"a", "b">>, 9, 0), PlainLine(<<"a", "b">>, 10, 0) >> }

\* texts of 120 and of 121 characters
Text120 == [i \in 1..MaxHeadingLen |-> "a"]

Text121 == [i \in 1..(MaxHeadingLen + 1) |-> "a"]

NumberedText == <<"1", ".", " ", "A", "b">>

CapsText == <<"A", "B", " ", "C", "D">>

\* the candidate lines: plain titles at 15, 13 and 12 points, a title of
\* one character and titles of 120 and 121 characters at 20 points, a
\* numbered and an all-caps line, bold and not, at 10, 9 and 13 points, a
\* blank line at 30 points and a line of two spans of 10 and 14 points
CandidateLines ==
    { PlainLine(<<"A", "b">>, 15, 0),
      PlainLine(<<"A", "b">>, 13, 0),
      PlainLine(<<"A", "b">>, 12, 0),
      PlainLine(<<" ", "A", " ">>, 20, 0),
      PlainLine(<<" ">> \o Text120 \o <<"\n">>, 20, 0),
      PlainLine(Text121, 20, 0),
      PlainLine(NumberedText, 10, BoldBit),
      PlainLine(NumberedText, 10, 0),
      PlainLine(CapsText, 10, BoldBit),
      PlainLine(CapsText, 10, 0),
      PlainLine(<<" ", "\t">>, 30, 0),
      Line(<<Span(<<"a">>, 10, 0), Span(<<"B">>, 14, BoldBit + 2)>>),
      PlainLine(NumberedText, 9, BoldBit),
      PlainLine(NumberedText, 13, BoldBit),
      PlainLine(NumberedText, 13, 0) }

DetectDocs ==
    { [npages  |-> 1,
       outline |-> <<>>,
       text    |-> << <<>> >>,
       blocks  |-> << << [type |-> 0, lines |-> body \o cands] >> >>] :
        body \in BodyMixes, cands \in SeqsUpTo(CandidateLines, MaxCandidates) }

InitDetect ==
    /\ doc \in DetectDocs
    /\ req = [tool |-> "detect_headings"]
    /\ resp = Pending
    /\ reads = <<>>
    /\ best_idx = -1
    /\ NoTallies
    /\ NoCallers

NextDetect == DetectHeadingsCall

SpecDetect == InitDetect /\ [][NextDetect]_vars


-----------------------------------------------------------------------------
(* find_section_pages: the fuzzy lookup of a section title in a Toc.       *)
(* A score is the pair <<numerator, denominator>> of the quotient the code *)
(* computes; indices are 0-based as in the code, -1 for no match.          *)

\* "query == title_lower", without the comparison of the whitespace-free forms
ExactMatchNoNospace(query, title_lower) == query = title_lower

\* "query == title_lower or query_nospace == title_nospace"
ExactMatch(query, title_lower) ==
    \/ query = title_lower
    \/ RemoveSpace(query) = RemoveSpace(title_lower)

\* "query in title_lower or title_lower in query", without its second half
ContainMatchOneWay(query, title_lower) == IsSubstring(query, title_lower)

\* "query in title_lower or title_lower in query"
ContainMatch(query, title_lower) ==
    IsSubstring(query, title_lower) \/ IsSubstring(title_lower, query)

\* len(query) / max(len(title_lower), 1)
ContainScore(query, title_lower) == <<Len(query), Max(Len(title_lower), 1)>>

\* query_words & title_words
Overlap(query, title_lower) == SplitWords(query) \cap SplitWords(title_lower)

\* len(overlap) / max(len(query_words | title_words), 1)
OverlapScore(query, title_lower) ==
    <<Cardinality(Overlap(query, title_lower)),
      Max(Cardinality(SplitWords(query) \cup SplitWords(title_lower)), 1)>>

\* "score > best_score" with >= in place of >
ScoreBeatsOrTies(score, best_score) ==
    score[1] * best_score[2] >= best_score[1] * score[2]

\* "score > best_score": quotients of small integers compare as the fractions do
ScoreBeats(score, best_score) ==
    score[1] * best_score[2] > best_score[1] * score[2]

RECURSIVE ScanToc(_, _, _, _, _)
\* the loop over enumerate(toc) from entry i on; its value is best_idx at the end
ScanToc(toc, query, i, bidx, best_score) ==
    IF i >= Len(toc) THEN bidx
    ELSE LET title_lower == Strip(Lower(toc[i + 1].title))
         IN  IF ExactMatch(query, title_lower) THEN i
             ELSE IF ContainMatch(query, title_lower)
                 THEN LET score == ContainScore(query, title_lower)
                      IN  IF ScoreBeats(score, best_score)
                          THEN ScanToc(toc, query, i + 1, i, score)
                          ELSE ScanToc(toc, query, i + 1, bidx, best_score)
             ELSE IF Overlap(query, title_lower) # {}
                 THEN LET score == OverlapScore(query, title_lower)
                      IN  IF ScoreBeats(score, best_score)
                          THEN ScanToc(toc, query, i + 1, i, score)
                          ELSE ScanToc(toc, query, i + 1, bidx, best_score)
             ELSE ScanToc(toc, query, i + 1, bidx, best_score)

\* best_idx after the loop, with best_idx = -1 and best_score = 0.0 before it
BestIdx(toc, section_title) ==
    ScanToc(toc, Strip(Lower(section_title)), 0, -1, <<0, 1>>)

\* "toc[j]["level"] <= matched_level" with < in place of <=
EndsSectionStrict(level, matched_level) == level < matched_level

\* "toc[j]["level"] <= matched_level"
EndsSection(level, matched_level) == level <= matched_level

\* "end_page = toc[j]["page"] - 1" without the conversion to a 0-based page
BoundaryEndOneBased(entry) == entry.page

\* "end_page = toc[j]["page"] - 1"
BoundaryEnd(entry) == entry.page - 1

RECURSIVE EndPage(_, _, _, _)
\* end_page: the loop over range(best_idx + 1, len(toc)) from j on
EndPage(toc, j, matched_level, total_pages) ==
    IF j >= Len(toc) THEN total_pages
    ELSE IF EndsSection(toc[j + 1].level, matched_level)
        THEN BoundaryEnd(toc[j + 1])
        ELSE EndPage(toc, j + 1, matched_level, total_pages)

\* None
None == <<>>

\* the tuple find_section_pages returns, None when nothing matched
find_section_pages(toc, section_title, total_pages) ==
    LET bidx == BestIdx(toc, section_title)
    IN  IF bidx < 0 THEN None
        ELSE <<toc[bidx + 1].page - 1,
               EndPage(toc, bidx + 1, toc[bidx + 1].level, total_pages)>>

FindSectionPagesCall ==
    /\ req.tool = "find_section_pages"
    /\ resp = Pending
    /\ LET result == find_section_pages(req.toc, req.section_title, req.total_pages)
       IN  resp' = IF result = None
                   THEN [kind |-> "None"]
                   ELSE [kind |-> "range", start |-> result[1], end |-> result[2]]
    /\ best_idx' = BestIdx(req.toc, req.section_title)
    /\ UNCHANGED <<doc, req, reads>>
    /\ UNCHANGED <<pages_with_hits, skipped>>
    /\ UNCHANGED cacheVars

-----------------------------------------------------------------------------
(* The Tocs and queries of the find_section_pages specification.           *)

\* the longest Toc handed to find_section_pages
MaxTocLen == 3

FindTitles == { <<"A", " ", "b">>, <<"a">>, <<"b", " ", "A">> }

FindEntries == [level : {1, 2}, title : FindTitles, page : {1, 2}]

FindQueries ==
    { <<" ", "A", "B", " ">>, <<"a">>, <<"\t", "a", " ", "B">>, <<"b">>,
      <<"a", " ", "c">>, <<" ">>, <<"c">> }

\* a document that plays no part in a call
NoDoc == [npages |-> 0, outline |-> <<>>, text |-> <<>>, blocks |-> <<>>]

InitFind ==
    /\ doc = NoDoc
    /\ req \in [tool : {"find_section_pages"},
                toc : SeqsUpTo(FindEntries, MaxTocLen),
                section_title : FindQueries,
                total_pages : {2}]
    /\ resp = Pending
    /\ reads = <<>>
    /\ best_idx = -1
    /\ NoTallies
    /\ NoCallers

NextFind == FindSectionPagesCall

SpecFind == InitFind /\ [][NextFind]_vars

-----------------------------------------------------------------------------
(* Short Tocs with blank titles and blank queries, for the three tiers of   *)
(* find_section_pages.                                                     *)

\* the longest Toc of this specification
MaxMatchTocLen == 2

MatchTitles ==
    { <<>>, <<" ">>, <<"a">>, <<"A", " ", "b">>, <<"b", " ", "c">> }

MatchEntries == [level : {1}, title : MatchTitles, page : {1, 2}]

MatchQueries ==
    { <<>>, <<" ", "\t">>, <<"a">>, <<"b">>, <<"a", "b">>, <<"A", " ", " ", "B">>,
      <<"c", " ", "d">>, <<"d">> }

InitMatch ==
    /\ doc = NoDoc
    /\ req \in [tool : {"find_section_pages"},
                toc : SeqsUpTo(MatchEntries, MaxMatchTocLen),
                section_title : MatchQueries,
                total_pages : {2}]
    /\ resp = Pending
    /\ reads = <<>>
    /\ best_idx = -1
    /\ NoTallies
    /\ NoCallers

NextMatch == FindSectionPagesCall

SpecMatch == InitMatch /\ [][NextMatch]_vars


-----------------------------------------------------------------------------
(* pdf_read_section                                                        *)

\* the cap on the pages of one pdf_read_section call
MaxSectionPages == 15

\* how many section titles a not-found answer lists
SuggestCap == 20

\* the titles a not-found answer lists, were toc not cut to its first 20
SuggestionsUncut(toc) == [k \in 1..Len(toc) |-> toc[k].title]

\* the titles of toc[:20]
Suggestions(toc) ==
    LET first == Prefix(toc, SuggestCap)
    IN  [k \in 1..Len(first) |-> first[k].title]

\* matched_title: the title of the first entry of toc that starts on page
\* start_0, the query itself when there is none
MatchedTitle(toc, start_0, section_title) ==
    LET onPage == { i \in 1..Len(toc) : toc[i].page - 1 = start_0 }
    IN  IF onPage = {} THEN section_title ELSE toc[MinOf(onPage)].title

\* end_0 after the cap: "if page_count > 15: end_0 = start_0 + 15"
CapSectionEnd(start_0, end_0) ==
    IF end_0 - start_0 > MaxSectionPages THEN start_0 + MaxSectionPages ELSE end_0

\* page_count after the cap
CapSectionCount(start_0, end_0) ==
    IF end_0 - start_0 > MaxSectionPages THEN MaxSectionPages ELSE end_0 - start_0

\* the success answer of pdf_read_section for the pages idx
SectionPages(d, matched_title, start_0, end_0, page_count, idx) ==
    [resp  |-> [kind          |-> "section",
                matched_title |-> matched_title,
                first_page    |-> start_0 + 1,
                end_page      |-> end_0,
                page_count    |-> page_count,
                total_chars   |-> SumLen(d, idx),
                truncated     |-> page_count = MaxSectionPages,
                parts         |-> [k \in 1..Len(idx) |-> PagePart(d, idx[k])]],
     reads |-> idx]

\* pdf_read_section from "start_0, end_0 = result" on
SectionOfRange(d, toc, section_title, start_0, end_0) ==
    SectionPages(d,
                 MatchedTitle(toc, start_0, section_title),
                 start_0,
                 CapSectionEnd(start_0, end_0),
                 CapSectionCount(start_0, end_0),
                 Range(start_0, CapSectionEnd(start_0, end_0)))

\* pdf_read_section from "if result is None" on
SectionOfResult(d, toc, section_title, result) ==
    IF result = None
    THEN [resp  |-> [kind          |-> "ERROR_section_not_found",
                     section_title |-> section_title,
                     available     |-> Suggestions(toc)],
          reads |-> <<>>]
    ELSE SectionOfRange(d, toc, section_title, result[1], result[2])

\* pdf_read_section from "if not toc" on
SectionOfToc(d, toc, section_title) ==
    IF toc = <<>>
    THEN [resp |-> [kind |-> "ERROR_no_toc"], reads |-> <<>>]
    ELSE SectionOfResult(d, toc, section_title,
                         find_section_pages(toc, section_title, d.npages))

\* the value pdf_read_section returns and the pages it reads, for an opened d
ReadSectionResult(d, section_title) ==
    SectionOfToc(d, get_toc(d), section_title)

\* best_idx of the find_section_pages call pdf_read_section makes, -1 when
\* it makes none
SectionBestIdx(toc, section_title) ==
    IF toc = <<>> THEN -1 ELSE BestIdx(toc, section_title)

pdf_read_section ==
    /\ req.tool = "pdf_read_section"
    /\ resp = Pending
    /\ Return(ReadSectionResult(doc, req.section_title))
    /\ best_idx' = SectionBestIdx(get_toc(doc), req.section_title)
    /\ UNCHANGED <<doc, req>>
    /\ UNCHANGED <<pages_with_hits, skipped>>
    /\ UNCHANGED cacheVars

-----------------------------------------------------------------------------
(* The documents and queries of the pdf_read_section specification.        *)

\* the longest native outline of a two-page document
MaxSectionOutlineLen == 2

\* the longest native outline of a long document
MaxLongToc == 21

SectionEntries == {1, 2} \X { <<" ">>, <<"a">>, <<"A", " ", "b">> } \X {1, 2}

\* two-page documents: every short native outline, with and without
\* headings to detect
ShortDocs ==
    { [npages  |-> 2,
       outline |-> o,
       text    |-> [p \in 1..2 |-> PlainText(p)],
       blocks  |-> b] :
        o \in SeqsUpTo(SectionEntries, MaxSectionOutlineLen),
        b \in {HeadedBlocks, NoBlocks} }

DigitChars == <<"0", "1", "2", "3", "4", "5", "6", "7", "8", "9">>

\* the title of entry i of a long outline: "a" and the two digits of i
LongTitle(i) == <<"a", DigitChars[(i \div 10) + 1], DigitChars[(i % 10) + 1]>>

\* a document of n pages whose native outline has one entry per page, a
\* chapter on page 1 and sections below it
LongDoc(n) ==
    [npages  |-> n,
     outline |-> [i \in 1..n |-> <<IF i = 1 THEN 1 ELSE 2, LongTitle(i), i>>],
     text    |-> [p \in 1..n |-> PlainText(p)],
     blocks  |-> [p \in 1..n |-> <<>>]]

LongDocs == { LongDoc(n) : n \in (SuggestCap - 1)..MaxLongToc }

\* the last page a second chapter may start on
MaxGapPage == 17

\* a document of p pages with two chapters, "a" on page 1 and "b" on page p:
\* chapter "a" is p - 1 pages long
GapDoc(p) ==
    [npages  |-> p,
     outline |-> << <<1, <<"a">>, 1>>, <<1, <<"b">>, p>> >>,
     text    |-> [q \in 1..p |-> PlainText(q)],
     blocks  |-> [q \in 1..p |-> <<>>]]

\* first chapters of 14 pages and more
GapDocs == { GapDoc(p) : p \in MaxSectionPages..MaxGapPage }

SectionQueries == { <<"a">>, <<" ", "A", "B", " ">>, <<"c">>, <<" ">> }

InitSection ==
    /\ doc \in ShortDocs \cup LongDocs \cup GapDocs
    /\ req \in [tool : {"pdf_read_section"}, section_title : SectionQueries]
    /\ resp = Pending
    /\ reads = <<>>
    /\ best_idx = -1
    /\ NoTallies
    /\ NoCallers

NextSection == pdf_read_section

SpecSection == InitSection /\ [][NextSection]_vars

-----------------------------------------------------------------------------
(* pdf_search                                                              *)

\* the characters of context a snippet keeps on each side of a hit
ContextWidth == 100

\* the offsets >= start at which sub occurs in text
Occurrences(text, sub, start) ==
    { i \in start..(Len(text) - Len(sub)) : SubSeq(text, i + 1, i + Len(sub)) = sub }

\* text.find(sub, start): the lowest offset >= start where sub occurs, -1 if none
Find(text, sub, start) ==
    IF Occurrences(text, sub, start) = {} THEN -1
    ELSE MinOf(Occurrences(text, sub, start))

\* "search_start = pos + 1", were the scan to restart after the whole match
NextSearchStartPastMatch(pos, query_lower) == pos + Len(query_lower)

\* "search_start = pos + 1"
NextSearchStart(pos, query_lower) == pos + 1

RECURSIVE PageHits(_, _, _)
\* the offsets the while loop finds on one page, from search_start on
PageHits(text_lower, query_lower, search_start) ==
    IF Find(text_lower, query_lower, search_start) < 0 THEN <<>>
    ELSE <<Find(text_lower, query_lower, search_start)>>
         \o PageHits(text_lower, query_lower,
                     NextSearchStart(Find(text_lower, query_lower, search_start),
                                     query_lower))

\* the hits of 0-based page page_idx, each with its page
HitsOnPage(d, query_lower, page_idx) ==
    [k \in 1..Len(PageHits(Lower(d.text[page_idx + 1]), query_lower, 0)) |->
        [page_idx |-> page_idx,
         pos      |-> PageHits(Lower(d.text[page_idx + 1]), query_lower, 0)[k]]]

\* every hit of the document, in the order the two loops find them
AllHits(d, query_lower) ==
    Flatten([p \in 1..d.npages |-> HitsOnPage(d, query_lower, p - 1)])

\* str.replace("\n", " ")
FlattenNewlines(s) == [i \in 1..Len(s) |-> IF s[i] = "\n" THEN " " ELSE s[i]]

\* the entry of matches for one hit: "[Page n] prefix snippet suffix"
Snippet(text, query, hit) ==
    LET ctx_start == Max(0, hit.pos - ContextWidth)
        ctx_end   == Min(Len(text), hit.pos + Len(query) + ContextWidth)
    IN  [page    |-> hit.page_idx + 1,
         prefix  |-> IF ctx_start > 0 THEN "..." ELSE "",
         snippet |-> Strip(FlattenNewlines(SubSeq(text, ctx_start + 1, ctx_end))),
         suffix  |-> IF ctx_end < Len(text) THEN "..." ELSE ""]

\* "len(matches) < max_results" with <= in place of <
BelowCapInclusive(n, max_results) == n <= max_results

\* "if len(matches) < max_results"
BelowCap(n, max_results) == n < max_results

RECURSIVE Materialize(_, _, _, _, _)
\* matches after the hits of hs, given the matches made so far
Materialize(d, query, hs, max_results, matches) ==
    IF hs = <<>> THEN matches
    ELSE Materialize(d, query, Tail(hs), max_results,
            IF BelowCap(Len(matches), max_results)
            THEN Append(matches,
                        Snippet(d.text[Head(hs).page_idx + 1], query, Head(hs)))
            ELSE matches)

\* pages_with_hits after the scan: the 1-based pages with a hit, each with
\* its number of hits
Tally(hs) ==
    [p \in { hs[k].page_idx + 1 : k \in 1..Len(hs) } |->
        Cardinality({ k \in 1..Len(hs) : hs[k].page_idx + 1 = p })]

RECURSIVE SortedItems(_, _)
\* sorted(f.items()) over the keys S of the dict f
SortedItems(f, S) ==
    IF S = {} THEN <<>>
    ELSE << <<MinOf(S), f[MinOf(S)]>> >> \o SortedItems(f, S \ {MinOf(S)})

RECURSIVE SumValues(_, _)
\* sum(f.values()) over the keys S of the dict f
SumValues(f, S) ==
    IF S = {} THEN 0
    ELSE f[MinOf(S)] + SumValues(f, S \ {MinOf(S)})

\* pdf_search from "if not matches" on
SearchOfMatches(d, query, max_results, tally, matches) ==
    IF matches = <<>>
    THEN [resp  |-> [kind |-> "no_results", query |-> query],
          reads |-> Range(0, d.npages),
          pages_with_hits |-> tally]
    ELSE [resp  |-> [kind          |-> "search",
                     query         |-> query,
                     total_hits    |-> SumValues(tally, DOMAIN tally),
                     hit_pages     |-> Cardinality(DOMAIN tally),
                     page_summary  |-> SortedItems(tally, DOMAIN tally),
                     showing_first |-> SumValues(tally, DOMAIN tally) > max_results,
                     matches       |-> matches],
          reads |-> Range(0, d.npages),
          pages_with_hits |-> tally]

\* pdf_search from the loop over the pages on
SearchOfHits(d, query, max_results, hs) ==
    SearchOfMatches(d, query, max_results, Tally(hs),
                    Materialize(d, query, hs, max_results, <<>>))

\* "not query.strip()", were the query not trimmed first
QueryIsEmptyUntrimmed(query) == query = <<>>

\* "not query.strip()"
QueryIsEmpty(query) == Strip(query) = <<>>

\* the value pdf_search returns, the pages it scans and its tally, for an
\* opened d
SearchResult(d, query, max_results) ==
    IF QueryIsEmpty(query)
    THEN [resp  |-> [kind |-> "ERROR_empty_query"],
          reads |-> <<>>,
          pages_with_hits |-> <<>>]
    ELSE SearchOfHits(d, query, max_results, AllHits(d, Lower(query)))

\* a search returns r.resp after scanning r.reads with the tally r.pages_with_hits
ReturnSearch(r) ==
    /\ resp' = r.resp
    /\ reads' = r.reads
    /\ pages_with_hits' = r.pages_with_hits

pdf_search ==
    /\ req.tool = "pdf_search"
    /\ resp = Pending
    /\ ReturnSearch(SearchResult(doc, req.query, req.max_results))
    /\ UNCHANGED <<doc, req, best_idx, skipped>>
    /\ UNCHANGED cacheVars

-----------------------------------------------------------------------------
(* The documents and requests of the pdf_search specification.             *)

\* the largest page count of a searched document
MaxSearchPages == 2

\* the largest max_results of a search
MaxResults == 3

\* a page whose one "a" has more than ContextWidth characters on each side
LongText == [i \in 1..(2 * ContextWidth + 3) |->
                IF i = ContextWidth + 2 THEN "a" ELSE "-"]

SearchTexts ==
    { <<"a", "a", "a", "a", "a">>, <<"a", "A", "a">>,
      <<"b", "\n", "a", " ", "c">>, <<>>, LongText }

SearchDocs ==
    { [npages  |-> Len(t),
       outline |-> <<>>,
       text    |-> t,
       blocks  |-> [p \in 1..Len(t) |-> <<>>]] :
        t \in SeqsUpTo(SearchTexts, MaxSearchPages) }

SearchQueries ==
    { <<"a">>, <<"A", "a">>, <<"a", " ">>, <<"c">>, <<"x">>, <<>>, <<" ", "\t">> }

InitSearch ==
    /\ doc \in SearchDocs
    /\ req \in [tool : {"pdf_search"},
                query : SearchQueries,
                max_results : -1..MaxResults]
    /\ resp = Pending
    /\ reads = <<>>
    /\ best_idx = -1
    /\ NoTallies
    /\ NoCallers

NextSearch == pdf_search

SpecSearch == InitSearch /\ [][NextSearch]_vars

-----------------------------------------------------------------------------
(* pdf_get_page_images                                                     *)
(* doc.images[p] lists, for each image reference of page p, what           *)
(* doc.extract_image answers for it: [raises |-> TRUE], NoImage (None or   *)
(* an empty dict) or a dict with some of image, width, height and ext;     *)
(* image is a sequence of bytes.                                           *)

\* the smallest width and height of an image that is kept
MinImageSide == 50

\* None
NoImage == [raises |-> FALSE]

\* base_image.get(key, default)
Get(base_image, key, default) ==
    IF key \in DOMAIN base_image THEN base_image[key] ELSE default

\* the base64 alphabet
B64Chars ==
    << "A", "B", "C", "D", "E", "F", "G", "H", "I", "J", "K", "L", "M",
       "N", "O", "P", "Q", "R", "S", "T", "U", "V", "W", "X", "Y", "Z",
       "a", "b", "c", "d", "e", "f", "g", "h", "i", "j", "k", "l", "m",
       "n", "o", "p", "q", "r", "s", "t", "u", "v", "w", "x", "y", "z",
       "0", "1", "2", "3", "4", "5", "6", "7", "8", "9", "+", "/" >>

B64Char(n) == B64Chars[n + 1]

RECURSIVE B64Encode(_)
\* base64.b64encode(b).decode("ascii"): three bytes give four characters,
\* a last group of one or two bytes is padded with "="
B64Encode(b) ==
    IF b = <<>> THEN <<>>
    ELSE IF Len(b) = 1
        THEN << B64Char(b[1] \div 4), B64Char((b[1] % 4) * 16), "=", "=" >>
    ELSE IF Len(b) = 2
        THEN << B64Char(b[1] \div 4),
                B64Char((b[1] % 4) * 16 + (b[2] \div 16)),
                B64Char((b[2] % 16) * 4), "=" >>
    ELSE << B64Char(b[1] \div 4),
            B64Char((b[1] % 4) * 16 + (b[2] \div 16)),
            B64Char((b[2] % 16) * 4 + (b[3] \div 64)),
            B64Char(b[3] % 64) >> \o B64Encode(SubSeq(b, 4, Len(b)))

\* mime_map.get(ext, f"image/{ext}"), as the pair of "image/" and the subtype
MimeType(ext) ==
    CASE ext = "png"  -> <<"image/", "png">>
      [] ext = "jpeg" -> <<"image/", "jpeg">>
      [] ext = "jpg"  -> <<"image/", "jpeg">>
      [] ext = "jxr"  -> <<"image/", "jxr">>
      [] ext = "jpx"  -> <<"image/", "jpx">>
      [] ext = "bmp"  -> <<"image/", "bmp">>
      [] ext = "tiff" -> <<"image/", "tiff">>
      [] OTHER        -> <<"image/", ext>>

\* "not base_image or not base_image.get("image")"
Unreadable(base_image) ==
    base_image = NoImage \/ Get(base_image, "image", <<>>) = <<>>

\* "width < 50 or height < 50" with "and" in place of "or"
TooSmallBothSides(width, height) == width < MinImageSide /\ height < MinImageSide

\* "width < 50 or height < 50"
TooSmall(width, height) == width < MinImageSide \/ height < MinImageSide

\* whether the loop body skips the image: extraction raises, nothing
\* readable comes back, or the image is too small
Skips(base_image) ==
    \/ base_image.raises
    \/ Unreadable(base_image)
    \/ TooSmall(Get(base_image, "width", 0), Get(base_image, "height", 0))

\* the two entries appended to results for image img_idx (0-based)
ImageEntries(base_image, img_idx) ==
    << [type     |-> "image",
        data     |-> B64Encode(base_image.image),
        mimeType |-> MimeType(Get(base_image, "ext", "png"))],
       [type   |-> "text",
        index  |-> img_idx + 1,
        width  |-> Get(base_image, "width", 0),
        height |-> Get(base_image, "height", 0),
        format |-> Get(base_image, "ext", "png")] >>

RECURSIVE ExtractLoop(_, _, _, _)
\* the loop over enumerate(image_list) from img_idx on; its value is
\* results and skipped at the end
ExtractLoop(image_list, img_idx, results, skips) ==
    IF img_idx >= Len(image_list) THEN [results |-> results, skipped |-> skips]
    ELSE IF Skips(image_list[img_idx + 1])
        THEN ExtractLoop(image_list, img_idx + 1, results, skips + 1)
        ELSE ExtractLoop(image_list, img_idx + 1,
                         results \o ImageEntries(image_list[img_idx + 1], img_idx),
                         skips)

\* pdf_get_page_images from "if not results" on
ImagesOfLoop(page_number, image_list, out) ==
    IF out.results = <<>>
    THEN [resp    |-> [kind        |-> "all_filtered",
                       page_number |-> page_number,
                       images      |-> Len(image_list)],
          skipped |-> out.skipped]
    ELSE [resp    |-> [kind        |-> "images",
                       page_number |-> page_number,
                       extracted   |-> Len(out.results) \div 2,
                       skipped     |-> out.skipped,
                       results     |-> out.results],
          skipped |-> out.skipped]

\* pdf_get_page_images from "image_list = page.get_images(full=True)" on
ImagesOfPage(page_number, image_list) ==
    IF image_list = <<>>
    THEN [resp    |-> [kind |-> "no_images", page_number |-> page_number],
          skipped |-> 0]
    ELSE ImagesOfLoop(page_number, image_list,
                      ExtractLoop(image_list, 0, <<>>, 0))

\* the value pdf_get_page_images returns and its count of skipped images,
\* for an opened d
PageImagesResult(d, page_number) ==
    IF page_number < 1 \/ page_number > d.npages
    THEN [resp    |-> [kind        |-> "ERROR_page_out_of_range",
                       page_number |-> page_number,
                       total       |-> d.npages],
          skipped |-> 0]
    ELSE ImagesOfPage(page_number, d.images[page_number])

\* the call returns r.resp having skipped r.skipped images
ReturnImages(r) == resp' = r.resp /\ skipped' = r.skipped

pdf_get_page_images ==
    /\ req.tool = "pdf_get_page_images"
    /\ resp = Pending
    /\ ReturnImages(PageImagesResult(doc, req.page_number))
    /\ UNCHANGED <<doc, req, reads, best_idx, pages_with_hits>>
    /\ UNCHANGED cacheVars

-----------------------------------------------------------------------------
(* The documents and requests of the pdf_get_page_images specification.    *)

\* the most image references on a page
MaxImages == 3

\* what extract_image answers for an image of the given bytes, size and format
Image(bytes, width, height, ext) ==
    [raises |-> FALSE, image |-> bytes, width |-> width, height |-> height,
     ext |-> ext]

\* a decorative 10x10 image, images of 60x60, 200x100 and exactly 50x50,
\* an image too low by one pixel, an image of a format outside mime_map,
\* a corrupt stream, an xref with nothing behind it, an image without
\* bytes and one without width and format
PageImages ==
    { Image(<<1>>, 10, 10, "png"),
      Image(<<255, 216>>, 60, 60, "jpeg"),
      Image(<<77, 97, 110, 9>>, 200, 100, "png"),
      Image(<<0, 1, 2>>, MinImageSide, MinImageSide, "jpg"),
      Image(<<3>>, 60, MinImageSide - 1, "bmp"),
      Image(<<4, 5>>, 64, 64, "webp"),
      [raises |-> TRUE],
      NoImage,
      Image(<<>>, 60, 60, "png"),
      [raises |-> FALSE, image |-> <<7>>, height |-> 80] }

\* one-page documents with up to MaxImages image references
ImageDocs ==
    { [npages  |-> 1,
       outline |-> <<>>,
       text    |-> << <<>> >>,
       blocks  |-> << <<>> >>,
       images  |-> << image_list >>] :
        image_list \in SeqsUpTo(PageImages, MaxImages) }

InitImages ==
    /\ doc \in ImageDocs
    /\ req \in [tool : {"pdf_get_page_images"}, page_number : 0..2]
    /\ resp = Pending
    /\ reads = <<>>
    /\ best_idx = -1
    /\ NoTallies
    /\ NoCallers

NextImages == pdf_get_page_images

SpecImages == InitImages /\ [][NextImages]_vars

-----------------------------------------------------------------------------
(* open_doc and the document cache.                                        *)
(* A file path is [prefix, name, suffix]; Path.resolve() drops the         *)
(* relative prefix.  A handle is [key, id]: the object the id-th call of   *)
(* fitz.open returned.  Each caller runs open_doc statement by statement.  *)

\* Path(file_path).resolve()
Resolve(file_path) == [name |-> file_path.name, suffix |-> file_path.suffix]

\* the files that exist
ExistingFiles ==
    { [name |-> "p", suffix |-> ".pdf"],
      [name |-> "q", suffix |-> ".PDF"],
      [name |-> "bad", suffix |-> ".pdf"],
      [name |-> "notes", suffix |-> ".txt"] }

\* the files fitz.open cannot parse
CorruptFiles == { [name |-> "bad", suffix |-> ".pdf"] }

\* p.suffix.lower()
LowerSuffix(suffix) == IF suffix = ".PDF" THEN ".pdf" ELSE suffix

\* what resolve_path returns or raises
resolve_path(file_path) ==
    IF Resolve(file_path) \notin ExistingFiles
    THEN [raised |-> "FileNotFoundError"]
    ELSE IF LowerSuffix(Resolve(file_path).suffix) # ".pdf"
    THEN [raised |-> "ValueError"]
    ELSE [raised |-> "", key |-> Resolve(file_path)]

\* the dict f after f[key] = value
DictSet(f, key, value) ==
    [k \in DOMAIN f \cup {key} |-> IF k = key THEN value ELSE f[k]]

\* caller c after its open_doc has returned or raised what the entry says:
\* a direct caller is done, a tool goes on with what open_doc gave it
Finished(c, entry) ==
    IF callers[c].request = None
    THEN [pc       |-> "idle",
          calls    |-> callers[c].calls,
          returned |-> Append(callers[c].returned, entry)]
    ELSE [pc       |-> "tool",
          calls    |-> callers[c].calls,
          returned |-> callers[c].returned,
          request  |-> callers[c].request,
          opened   |-> entry]

\* caller c at the statement pc of open_doc, with the locals given
At(c, pc, file_path, key, handle) ==
    [pc        |-> pc,
     calls     |-> callers[c].calls,
     returned  |-> callers[c].returned,
     request   |-> callers[c].request,
     file_path |-> file_path,
     key       |-> key,
     doc       |-> handle]

\* the calls of open_doc one caller makes
MaxCalls == 2

FilePaths ==
    { [prefix |-> "", name |-> "p", suffix |-> ".pdf"],
      [prefix |-> "./", name |-> "p", suffix |-> ".pdf"],
      [prefix |-> "", name |-> "q", suffix |-> ".PDF"],
      [prefix |-> "", name |-> "bad", suffix |-> ".pdf"],
      [prefix |-> "", name |-> "notes", suffix |-> ".txt"],
      [prefix |-> "", name |-> "missing", suffix |-> ".pdf"] }

\* open_doc(file_path) is called on its own
OpenDocCall(c) ==
    /\ callers[c].pc = "idle"
    /\ callers[c].calls < MaxCalls
    /\ \E file_path \in FilePaths :
          callers' = [callers EXCEPT ![c] =
                        [pc        |-> "resolve",
                         calls     |-> callers[c].calls + 1,
                         returned  |-> callers[c].returned,
                         request   |-> None,
                         file_path |-> file_path,
                         key       |-> None,
                         doc       |-> None]]
    /\ UNCHANGED <<doc_cache, opens>>
    /\ UNCHANGED callVars

\* "key = resolve_path(file_path)"
OpenDocResolve(c) ==
    /\ callers[c].pc = "resolve"
    /\ callers' = [callers EXCEPT ![c] =
          IF resolve_path(callers[c].file_path).raised # ""
          THEN Finished(c, [file_path |-> callers[c].file_path,
                            raised    |-> resolve_path(callers[c].file_path).raised])
          ELSE At(c, "lookup", callers[c].file_path,
                  resolve_path(callers[c].file_path).key, None)]
    /\ UNCHANGED <<doc_cache, opens>>
    /\ UNCHANGED callVars

\* "if key in _doc_cache: return _doc_cache[key]"
OpenDocLookup(c) ==
    /\ callers[c].pc = "lookup"
    /\ callers' = [callers EXCEPT ![c] =
          IF callers[c].key \in DOMAIN doc_cache
          THEN Finished(c, [file_path |-> callers[c].file_path,
                            raised    |-> "",
                            key       |-> callers[c].key,
                            doc       |-> doc_cache[callers[c].key]])
          ELSE At(c, "open", callers[c].file_path, callers[c].key, None)]
    /\ UNCHANGED <<doc_cache, opens>>
    /\ UNCHANGED callVars

\* "doc = fitz.open(key)"
OpenDocOpen(c) ==
    /\ callers[c].pc = "open"
    /\ opens' = Append(opens, callers[c].key)
    /\ callers' = [callers EXCEPT ![c] =
          IF callers[c].key \in CorruptFiles
          THEN Finished(c, [file_path |-> callers[c].file_path,
                            raised    |-> "FileDataError"])
          ELSE At(c, "store", callers[c].file_path, callers[c].key,
                  [key |-> callers[c].key, id |-> Len(opens) + 1])]
    /\ UNCHANGED doc_cache
    /\ UNCHANGED callVars

\* "_doc_cache[key] = doc" and "return doc"
OpenDocStore(c) ==
    /\ callers[c].pc = "store"
    /\ doc_cache' = DictSet(doc_cache, callers[c].key, callers[c].doc)
    /\ callers' = [callers EXCEPT ![c] =
          Finished(c, [file_path |-> callers[c].file_path,
                       raised    |-> "",
                       key       |-> callers[c].key,
                       doc       |-> callers[c].doc])]
    /\ UNCHANGED opens
    /\ UNCHANGED callVars

\* one statement of open_doc by caller c
open_doc(c) ==
    \/ OpenDocCall(c)
    \/ OpenDocResolve(c)
    \/ OpenDocLookup(c)
    \/ OpenDocOpen(c)
    \/ OpenDocStore(c)

InitCache ==
    /\ doc = NoDoc
    /\ req = [tool |-> "open_doc"]
    /\ resp = Pending
    /\ reads = <<>>
    /\ best_idx = -1
    /\ NoTallies
    /\ NoCallers

NextCache == \E c \in Callers : open_doc(c)

SpecCache == InitCache /\ [][NextCache]_vars

-----------------------------------------------------------------------------
(* The tools on top of the cache: a tool call is open_doc(file_path), then  *)
(* the tool's body on the handle open_doc returned.                        *)

\* the document fitz.open parses out of the file key
Contents(key) == IF key.name = "p" THEN GapDoc(2) ELSE PlainDoc(1)

\* the body of the tool named in the request, run on the opened document d
ToolResult(request, d) ==
    CASE request.tool = "pdf_read_pages"
           -> ReadPagesResult(d, request.start_page, request.end_page)
      [] request.tool = "pdf_read_section"
           -> ReadSectionResult(d, request.section_title)
      [] request.tool = "pdf_search"
           -> SearchResult(d, request.query, request.max_results)

\* "except (FileNotFoundError, ValueError) as e: return f"ERROR: {e}""
OpenErrorCaught(raised) == raised \in {"FileNotFoundError", "ValueError"}

\* what a tool call returns or raises, given how its open_doc ended
ToolOutcome(request, opened) ==
    IF OpenErrorCaught(opened.raised)
    THEN [kind |-> "ERROR_open", raised |-> opened.raised]
    ELSE IF opened.raised # ""
    THEN [kind |-> "raised", raised |-> opened.raised]
    ELSE ToolResult(request, Contents(opened.key)).resp

\* the tool calls one caller makes
MaxToolCalls == 2

PathOf(prefix, name, suffix) ==
    [prefix |-> prefix, name |-> name, suffix |-> suffix]

\* reads and searches that succeed, the three navigation failures, and the
\* three ways open_doc fails
ToolRequests ==
    { [tool |-> "pdf_read_pages", file_path |-> PathOf("", "p", ".pdf"),
       start_page |-> 1, end_page |-> 0],
      [tool |-> "pdf_read_pages", file_path |-> PathOf("./", "p", ".pdf"),
       start_page |-> 3, end_page |-> 0],
      [tool |-> "pdf_search", file_path |-> PathOf("", "p", ".pdf"),
       query |-> <<" ">>, max_results |-> 1],
      [tool |-> "pdf_read_section", file_path |-> PathOf("", "p", ".pdf"),
       section_title |-> <<"z">>],
      [tool |-> "pdf_read_pages", file_path |-> PathOf("", "missing", ".pdf"),
       start_page |-> 1, end_page |-> 0],
      [tool |-> "pdf_search", file_path |-> PathOf("", "notes", ".txt"),
       query |-> <<"a">>, max_results |-> 1],
      [tool |-> "pdf_read_section", file_path |-> PathOf("", "bad", ".pdf"),
       section_title |-> <<"a">>] }

\* a tool is called: "doc = open_doc(file_path)" begins
ToolCall(c) ==
    /\ callers[c].pc = "idle"
    /\ callers[c].calls < MaxToolCalls
    /\ \E request \in ToolRequests :
          callers' = [callers EXCEPT ![c] =
                        [pc        |-> "resolve",
                         calls     |-> callers[c].calls + 1,
                         returned  |-> callers[c].returned,
                         request   |-> request,
                         file_path |-> request.file_path,
                         key       |-> None,
                         doc       |-> None]]
    /\ UNCHANGED <<doc_cache, opens>>
    /\ UNCHANGED callVars

\* open_doc is over: the tool returns its error, lets the exception pass, or
\* runs its body on the document and returns the answer
ToolReturn(c) ==
    /\ callers[c].pc = "tool"
    /\ resp' = ToolOutcome(callers[c].request, callers[c].opened)
    /\ callers' = [callers EXCEPT ![c] =
                     [pc       |-> "idle",
                      calls    |-> callers[c].calls,
                      returned |-> callers[c].returned]]
    /\ UNCHANGED <<doc_cache, opens>>
    /\ UNCHANGED <<doc, req, reads, best_idx, pages_with_hits, skipped>>

\* one step of a tool call by caller c
tool_call(c) ==
    \/ ToolCall(c)
    \/ OpenDocResolve(c)
    \/ OpenDocLookup(c)
    \/ OpenDocOpen(c)
    \/ OpenDocStore(c)
    \/ ToolReturn(c)

InitTools ==
    /\ doc = NoDoc
    /\ req = [tool |-> "tools"]
    /\ resp = Pending
    /\ reads = <<>>
    /\ best_idx = -1
    /\ NoTallies
    /\ NoCallers

NextTools == \E c \in Callers : tool_call(c)

SpecTools == InitTools /\ [][NextTools]_vars

-----------------------------------------------------------------------------
(* Every tool and function, over every document and request above.         *)

Init ==
    \/ InitPages
    \/ InitToc
    \/ InitDetect
    \/ InitFind
    \/ InitMatch
    \/ InitSection
    \/ InitSearch
    \/ InitImages
    \/ InitCache
    \/ InitTools

Next ==
    \/ pdf_read_pages
    \/ GetTocCall
    \/ DetectHeadingsCall
    \/ FindSectionPagesCall
    \/ pdf_read_section
    \/ pdf_search
    \/ pdf_get_page_images
    \/ \E c \in Callers : open_doc(c)
    \/ \E c \in Callers : tool_call(c)

Spec == Init /\ [][Next]_vars


-----------------------------------------------------------------------------
(* Claims about pdf_read_pages, checked under SpecPages.                   *)

Answered(tool) == req.tool = tool /\ resp # Pending

\* C1: for 1 <= start <= total and end >= start, pdf_read_pages returns
\* exactly the pages start..min(end, total, start+9) in ascending order,
\* never more than 10 and never one past total, and the header's page range
\* and page count are those of the pages returned.
C1_ReadPagesReturnsCappedRange ==
    ( /\ Answered("pdf_read_pages")
      /\ 1 <= req.start_page
      /\ req.start_page <= doc.npages
      /\ req.end_page >= req.start_page )
    => LET last == Min(Min(req.end_page, doc.npages), req.start_page + 9)
       IN  /\ resp.kind = "pages"
           /\ Len(resp.parts) = last - req.start_page + 1
           /\ \A k \in 1..Len(resp.parts) :
                 resp.parts[k].page = req.start_page + k - 1
           /\ Len(resp.parts) <= 10
           /\ \A k \in 1..Len(resp.parts) : resp.parts[k].page <= doc.npages
           /\ resp.start_page = resp.parts[1].page
           /\ resp.end_page = resp.parts[Len(resp.parts)].page
           /\ resp.page_count = Len(resp.parts)
           /\ reads = [k \in 1..Len(resp.parts) |-> resp.parts[k].page - 1]

\* start=3, end=20 on a 15-page document: pages 3-12, "10 page(s)"
C1_Witness ==
    /\ Answered("pdf_read_pages")
    /\ doc.npages = 15 /\ req.start_page = 3 /\ req.end_page = 20
    /\ resp.kind = "pages"
    /\ resp.start_page = 3 /\ resp.end_page = 12 /\ resp.page_count = 10
    /\ Len(resp.parts) = 10

\* C2: for every document and every start, a call with end <= 0 answers
\* what the call with end = start answers, the out-of-range error included.
C2_NonPositiveEndIsStart ==
    (Answered("pdf_read_pages") /\ req.end_page <= 0)
    => LET same == ReadPagesResult(doc, req.start_page, req.start_page)
       IN  resp = same.resp /\ reads = same.reads

\* a negative end answered with the one page start
C2_Witness ==
    /\ Answered("pdf_read_pages")
    /\ req.end_page < 0
    /\ resp.kind = "pages"
    /\ resp.start_page = req.start_page /\ resp.end_page = req.start_page
    /\ Len(resp.parts) = 1

\* C3: start < 1 or start > total is the out-of-range error; a defaulted end
\* below start is the invalid-argument error; an end above total is no error
\* but is clamped to total; a failure reads and returns no page text.
C3_ReadPagesErrors ==
    Answered("pdf_read_pages")
    => LET start == req.start_page
           endd  == IF req.end_page <= 0 THEN req.start_page ELSE req.end_page
           inRange == 1 <= start /\ start <= doc.npages
       IN  /\ ~inRange => resp.kind = "ERROR_start_out_of_range"
           /\ (inRange /\ endd < start) => resp.kind = "ERROR_end_before_start"
           /\ (inRange /\ endd >= start) => resp.kind = "pages"
           /\ (inRange /\ endd >= start /\ endd > doc.npages)
                 => resp.end_page <= doc.npages
           /\ resp.kind # "pages"
                 => reads = <<>> /\ "parts" \notin DOMAIN resp

\* an end below an in-range start is refused and nothing is read
C3_Witness ==
    /\ Answered("pdf_read_pages")
    /\ 1 <= req.start_page /\ req.start_page <= doc.npages
    /\ req.end_page > 0 /\ req.end_page < req.start_page
    /\ resp.kind = "ERROR_end_before_start"
    /\ reads = <<>>

-----------------------------------------------------------------------------
(* Claims about get_toc, checked under SpecToc.                            *)

\* C4: with a non-empty native outline, get_toc returns exactly the native
\* entries whose trimmed title is non-empty, in their order, level and page
\* unchanged and title trimmed; no detected heading is mixed in.
C4_NativeOutlineFiltered ==
    (Answered("get_toc") /\ doc.outline # <<>>)
    => LET raw  == doc.outline
           keep == { i \in 1..Len(raw) : Strip(raw[i][2]) # <<>> }
           nth(k) == CHOOSE i \in keep :
                        Cardinality({ j \in keep : j <= i }) = k
       IN  /\ Len(resp.toc) = Cardinality(keep)
           /\ \A k \in 1..Len(resp.toc) :
                 /\ resp.toc[k].level = raw[nth(k)][1]
                 /\ resp.toc[k].page = raw[nth(k)][3]
                 /\ resp.toc[k].title = Strip(raw[nth(k)][2])
                 /\ resp.toc[k].title # <<>>

\* a blank native entry is dropped, a padded title is trimmed, and the
\* headings the detector would find are not used
C4_Witness ==
    /\ Answered("get_toc")
    /\ Len(doc.outline) = 2
    /\ doc.outline[1][2] = <<" ">>
    /\ doc.outline[2][2] = <<" ", "a", "\t">>
    /\ detect_headings(doc) # <<>>
    /\ resp.toc = << [level |-> doc.outline[2][1], title |-> <<"a">>,
                      page |-> doc.outline[2][3]] >>

\* C5: get_toc answers with the heading detector's output when the native
\* outline is absent and also when it is present but every entry of it has
\* an empty trimmed title.
C5_FilteredAwayOutlineDelegates ==
    ( /\ Answered("get_toc")
      /\ \A i \in 1..Len(doc.outline) : Strip(doc.outline[i][2]) = <<>> )
    => resp.toc = detect_headings(doc)

-----------------------------------------------------------------------------
(* Claims about find_section_pages, checked under SpecFind.                *)

\* the normalised query and titles of the call in flight
ReqQuery == Strip(Lower(req.section_title))

ReqTitle(i) == Strip(Lower(req.toc[i].title))

\* entry i (1-based) equals the query, as typed or with all whitespace removed
IsExactEntry(i) ==
    \/ ReqTitle(i) = ReqQuery
    \/ RemoveSpace(ReqTitle(i)) = RemoveSpace(ReqQuery)

ExactEntries == { i \in 1..Len(req.toc) : IsExactEntry(i) }

\* query and title of entry i contain one another
IsContainEntry(i) ==
    IsSubstring(ReqQuery, ReqTitle(i)) \/ IsSubstring(ReqTitle(i), ReqQuery)

\* query and title of entry i share a word
IsOverlapEntry(i) == SplitWords(ReqQuery) \cap SplitWords(ReqTitle(i)) # {}

\* the entries that have a score
ScoredEntries ==
    { i \in 1..Len(req.toc) : IsContainEntry(i) \/ IsOverlapEntry(i) }

\* the score of a scored entry, as <<numerator, denominator>>
EntryScore(i) ==
    IF IsContainEntry(i)
    THEN <<Len(ReqQuery), IF Len(ReqTitle(i)) = 0 THEN 1 ELSE Len(ReqTitle(i))>>
    ELSE <<Cardinality(SplitWords(ReqQuery) \cap SplitWords(ReqTitle(i))),
           Cardinality(SplitWords(ReqQuery) \cup SplitWords(ReqTitle(i)))>>

\* the score of i is at least the score of j
ScoreGeq(i, j) ==
    EntryScore(i)[1] * EntryScore(j)[2] >= EntryScore(j)[1] * EntryScore(i)[2]

\* the entries of S whose score no entry of S exceeds
TopEntries(S) == { i \in S : \A j \in S : ScoreGeq(i, j) }

\* C6: when some entry's title equals the query (case-insensitively after
\* trimming, or with all whitespace removed from both), the first such entry
\* in Toc order is selected, whatever the score of any other entry.
C6_FirstExactMatchWins ==
    (Answered("find_section_pages") /\ ExactEntries # {})
    => /\ best_idx + 1 = MinOf(ExactEntries)
       /\ resp.kind = "range"
       /\ resp.start = req.toc[MinOf(ExactEntries)].page - 1

\* an entry that contains the query's title scores 2 and comes first, the
\* exact entry comes second and is selected, a second exact entry follows
C6_Witness ==
    /\ Answered("find_section_pages")
    /\ Len(req.toc) = 3
    /\ ExactEntries = {2, 3}
    /\ IsContainEntry(1)
    /\ EntryScore(1) = <<2, 1>>
    /\ req.toc[1].page # req.toc[2].page
    /\ best_idx = 1

\* C7 as stated: with no exact entry, the entry with the highest score is
\* selected, the earliest one among equals.
C7_HighestScoreSelected ==
    ( /\ Answered("find_section_pages")
      /\ ExactEntries = {}
      /\ ScoredEntries # {} )
    => best_idx + 1 = MinOf(TopEntries(ScoredEntries))

\* C7 as amended: with no exact entry, the earliest entry with the highest
\* score is selected when that score is above 0; when no entry scores above
\* 0 (the trimmed query is empty) no entry is selected.
C7_HighestPositiveScoreSelected ==
    (Answered("find_section_pages") /\ ExactEntries = {})
    => LET positive == { i \in ScoredEntries : EntryScore(i)[1] > 0 }
       IN  IF positive = {}
           THEN best_idx = -1 /\ resp.kind = "None"
           ELSE best_idx + 1 = MinOf(TopEntries(positive))

\* a word-overlap entry, then two containing entries with the same higher
\* score: the first of the two is selected
C7_Witness ==
    /\ Answered("find_section_pages")
    /\ ExactEntries = {}
    /\ Len(req.toc) = 3
    /\ ~IsContainEntry(1) /\ IsOverlapEntry(1)
    /\ IsContainEntry(2) /\ IsContainEntry(3)
    /\ TopEntries(ScoredEntries) = {2, 3}
    /\ best_idx = 1

\* the entries after entry k that end its section
Boundaries(k) ==
    { j \in (k + 1)..Len(req.toc) : req.toc[j].level <= req.toc[k].level }

\* C8: for the matched entry k, start = page_k - 1 and end = page_j - 1 for
\* the smallest j > k with level_j <= level_k, or total_pages without such
\* a j; a deeper entry never ends the section.
C8_RangeEndsAtNextSibling ==
    (Answered("find_section_pages") /\ best_idx >= 0)
    => LET k == best_idx + 1
       IN  /\ resp.kind = "range"
           /\ resp.start = req.toc[k].page - 1
           /\ resp.end = IF Boundaries(k) = {}
                         THEN req.total_pages
                         ELSE req.toc[MinOf(Boundaries(k))].page - 1

\* the matched entry is followed by a deeper entry on another page and then
\* by a sibling: the sibling's page ends the section
C8_Witness ==
    /\ Answered("find_section_pages")
    /\ Len(req.toc) = 3
    /\ best_idx = 0
    /\ req.toc[2].level > req.toc[1].level
    /\ req.toc[3].level = req.toc[1].level
    /\ req.toc[2].page # req.toc[3].page
    /\ resp.kind = "range"
    /\ resp.end = req.toc[3].page - 1

\* C9 as stated: every range returned has end > start and end <= total_pages.
C9_RangeNonEmptyWithinDocument ==
    (Answered("find_section_pages") /\ resp.kind = "range")
    => resp.end > resp.start /\ resp.end <= req.total_pages

\* C9 as amended: for a Toc whose pages are pages of the document, every
\* range returned has end <= total_pages, and end > start exactly when the
\* entry that ends the section lies on a later page than the matched entry
\* (with no such entry: always); entries sharing a page give end = start.
C9_RangeWithinDocument ==
    (Answered("find_section_pages") /\ resp.kind = "range")
    => LET k == best_idx + 1
           bound == IF Boundaries(k) = {}
                    THEN req.total_pages + 1
                    ELSE req.toc[MinOf(Boundaries(k))].page
       IN  /\ resp.end <= req.total_pages
           /\ (resp.end > resp.start) <=> (bound > req.toc[k].page)
           /\ (bound = req.toc[k].page) => resp.end = resp.start

\* the matched entry and the sibling after it share a page: an empty range
C9_Witness ==
    /\ Answered("find_section_pages")
    /\ resp.kind = "range"
    /\ best_idx = 0
    /\ Len(req.toc) = 2
    /\ req.toc[2].level <= req.toc[1].level
    /\ req.toc[2].page = req.toc[1].page
    /\ resp.end = resp.start

-----------------------------------------------------------------------------
(* Claims about pdf_read_section, checked under SpecSection.               *)

\* C10: pdf_read_section fails with the no-table-of-contents condition
\* exactly when get_toc is empty, and with the distinct section-not-found
\* condition when the Toc is non-empty and the query does not resolve; the
\* not-found failure lists the titles of the first min(20, len(Toc)) entries
\* in Toc order and no others; neither failure reads or returns page text.
C10_ReadSectionFailures ==
    Answered("pdf_read_section")
    => LET toc == get_toc(doc)
           unresolved == find_section_pages(toc, req.section_title, doc.npages) = None
       IN  /\ (resp.kind = "ERROR_no_toc") <=> (toc = <<>>)
           /\ (resp.kind = "ERROR_section_not_found") <=> (toc # <<>> /\ unresolved)
           /\ resp.kind = "ERROR_section_not_found"
                 => /\ Len(resp.available) = Min(20, Len(toc))
                    /\ \A k \in 1..Len(resp.available) :
                          resp.available[k] = toc[k].title
           /\ resp.kind \in {"ERROR_no_toc", "ERROR_section_not_found"}
                 => reads = <<>> /\ "parts" \notin DOMAIN resp

\* a Toc of 21 entries and a query that matches none: 20 titles are listed
C10_Witness ==
    /\ Answered("pdf_read_section")
    /\ Len(get_toc(doc)) = 21
    /\ resp.kind = "ERROR_section_not_found"
    /\ Len(resp.available) = 20
    /\ resp.available[20] = <<"a", "2", "0">>
    /\ reads = <<>>

\* the range find_section_pages resolves for the pdf_read_section call in flight
ResolvedRange == find_section_pages(get_toc(doc), req.section_title, doc.npages)

ResolvedLen == ResolvedRange[2] - ResolvedRange[1]

\* C11: a successful pdf_read_section returns at most 15 pages, the pages
\* start..start+14 when the resolved range is longer than 15, and carries
\* the truncation notice exactly when the resolved range was longer than 15
\* pages.
C11_TruncationNoticeIffCapped ==
    (Answered("pdf_read_section") /\ resp.kind = "section")
    => /\ Len(resp.parts) <= 15
       /\ ResolvedLen > 15
             => /\ Len(resp.parts) = 15
                /\ \A k \in 1..15 : resp.parts[k].page = ResolvedRange[1] + k
       /\ resp.truncated <=> ResolvedLen > 15

\* C19: when the range resolved for the section has end <= start (two
\* entries sharing a page, or a native outline whose pages decrease),
\* pdf_read_section succeeds with no page block and a header that states
\* a page count of 0.
C19_EmptyRangeReadsZeroPages ==
    ( /\ Answered("pdf_read_section")
      /\ get_toc(doc) # <<>>
      /\ ResolvedRange # None
      /\ ResolvedRange[2] <= ResolvedRange[1] )
    => /\ resp.kind = "section"
       /\ resp.parts = <<>>
       /\ reads = <<>>
       /\ resp.page_count = 0

-----------------------------------------------------------------------------
(* Claims about pdf_search, checked under SpecSearch.                      *)

\* the offsets at which the lowercased query occurs in the lowercased text
\* of 1-based page p
ReqOffsets(p) ==
    { i \in 0..(Len(doc.text[p]) - Len(req.query)) :
        \A k \in 1..Len(req.query) :
            LowerChar(doc.text[p][i + k]) = LowerChar(req.query[k]) }

\* the pages on which the query occurs
ReqHitPages == { p \in 1..doc.npages : ReqOffsets(p) # {} }

\* the number of occurrences of the query in the whole document
ReqTotalHits ==
    Cardinality(UNION { { <<p, i>> : i \in ReqOffsets(p) } : p \in 1..doc.npages })

\* C12: for a query that is not blank and max_results >= 1, pdf_search
\* returns exactly min(total_hits, max_results) snippets; when there is a
\* hit, the header states the number of hits of the whole document and
\* lists every page with a hit, with all its hits, in ascending page order.
C12_SearchCapsSnippetsNotCounts ==
    ( /\ Answered("pdf_search")
      /\ Strip(req.query) # <<>>
      /\ req.max_results >= 1 )
    => IF ReqTotalHits = 0
       THEN resp.kind = "no_results"
       ELSE /\ resp.kind = "search"
            /\ Len(resp.matches) = Min(ReqTotalHits, req.max_results)
            /\ resp.total_hits = ReqTotalHits
            /\ resp.hit_pages = Cardinality(ReqHitPages)
            /\ { resp.page_summary[k][1] : k \in 1..Len(resp.page_summary) }
                  = ReqHitPages
            /\ \A k \in 1..Len(resp.page_summary) :
                  /\ resp.page_summary[k][2]
                        = Cardinality(ReqOffsets(resp.page_summary[k][1]))
                  /\ k > 1 => resp.page_summary[k - 1][1] < resp.page_summary[k][1]

\* 5 hits on page 1, 3 on page 2, max_results = 2: two snippets, "8 hit(s)",
\* "p.1(5), p.2(3)"
C12_Witness ==
    /\ Answered("pdf_search")
    /\ req.query = <<"a">> /\ req.max_results = 2
    /\ doc.text = << <<"a", "a", "a", "a", "a">>, <<"a", "A", "a">> >>
    /\ resp.kind = "search"
    /\ Len(resp.matches) = 2
    /\ resp.total_hits = 8
    /\ resp.page_summary = << <<1, 5>>, <<2, 3>> >>

\* C13: a query that is empty or all whitespace is refused with the
\* empty-query error, whatever the document and max_results, and no page
\* is scanned.
C13_BlankQueryRefused ==
    (Answered("pdf_search") /\ Strip(req.query) = <<>>)
    => /\ resp.kind = "ERROR_empty_query"
       /\ reads = <<>>
       /\ pages_with_hits = <<>>

\* a whitespace-only query on a two-page document
C13_Witness ==
    /\ Answered("pdf_search")
    /\ req.query = <<" ", "\t">>
    /\ doc.npages = 2
    /\ resp.kind = "ERROR_empty_query"
    /\ reads = <<>>

\* C20: for every page, the hit count pdf_search records is the number of
\* offsets at which the lowercased query occurs in the lowercased page text,
\* overlapping occurrences included; a page without an occurrence has no
\* record; the per-page breakdown of the header shows these counts.
C20_HitCountIsNumberOfOffsets ==
    (Answered("pdf_search") /\ Strip(req.query) # <<>>)
    => /\ DOMAIN pages_with_hits = ReqHitPages
       /\ \A p \in ReqHitPages : pages_with_hits[p] = Cardinality(ReqOffsets(p))
       /\ resp.kind = "search"
             => \A k \in 1..Len(resp.page_summary) :
                   resp.page_summary[k][2]
                     = Cardinality(ReqOffsets(resp.page_summary[k][1]))

\* query "Aa" over the page "aAa": the occurrences at offsets 0 and 1
\* overlap and both count
C20_Witness ==
    /\ Answered("pdf_search")
    /\ req.query = <<"A", "a">>
    /\ doc.text = << <<"a", "A", "a">> >>
    /\ ReqOffsets(1) = {0, 1}
    /\ pages_with_hits[1] = 2
    /\ resp.kind = "search"
    /\ resp.page_summary = << <<1, 2>> >>

-----------------------------------------------------------------------------
(* Claims about pdf_get_page_images, checked under SpecImages.             *)

\* the image references of the requested page
ReqImages == doc.images[req.page_number]

\* reference i of the page can be extracted: extraction succeeds with
\* bytes, and width and height are at least 50
IsExtractable(i) ==
    /\ ~ReqImages[i].raises
    /\ "image" \in DOMAIN ReqImages[i]
    /\ ReqImages[i].image # <<>>
    /\ "width" \in DOMAIN ReqImages[i]
    /\ ReqImages[i].width >= 50
    /\ "height" \in DOMAIN ReqImages[i]
    /\ ReqImages[i].height >= 50

Extractable == { i \in 1..Len(ReqImages) : IsExtractable(i) }

\* C14: for a page with n >= 1 image references, the extracted images are
\* exactly the references whose extraction succeeds with non-empty bytes,
\* width >= 50 and height >= 50, in page order, every other reference is
\* counted as skipped, and extracted + skipped = n; a reference that fails
\* never keeps a later one from being extracted.
C14_EveryImageExtractedOrSkipped ==
    ( /\ Answered("pdf_get_page_images")
      /\ req.page_number \in 1..doc.npages
      /\ ReqImages # <<>> )
    => /\ skipped = Len(ReqImages) - Cardinality(Extractable)
       /\ IF Extractable = {}
          THEN resp.kind = "all_filtered" /\ resp.images = Len(ReqImages)
          ELSE /\ resp.kind = "images"
               /\ resp.extracted = Cardinality(Extractable)
               /\ resp.skipped = skipped
               /\ resp.extracted + resp.skipped = Len(ReqImages)
               /\ Len(resp.results) = 2 * resp.extracted
               /\ { resp.results[2 * k].index : k \in 1..resp.extracted }
                     = Extractable
               /\ \A k \in 1..resp.extracted :
                     /\ resp.results[2 * k - 1].type = "image"
                     /\ resp.results[2 * k - 1].data
                           = B64Encode(ReqImages[resp.results[2 * k].index].image)
                     /\ k > 1 => resp.results[2 * k - 2].index
                                   < resp.results[2 * k].index

\* 10x10, 60x60 and 200x100: two images extracted, one skipped
C14_Witness ==
    /\ Answered("pdf_get_page_images")
    /\ req.page_number = 1
    /\ ReqImages = << Image(<<1>>, 10, 10, "png"),
                      Image(<<255, 216>>, 60, 60, "jpeg"),
                      Image(<<77, 97, 110, 9>>, 200, 100, "png") >>
    /\ resp.kind = "images"
    /\ resp.extracted = 2
    /\ resp.skipped = 1
    /\ resp.results[2].index = 2 /\ resp.results[4].index = 3

-----------------------------------------------------------------------------
(* Claims about open_doc, checked under SpecCache.                         *)

\* what the calls of open_doc made so far returned or raised
Outcomes ==
    UNION { { callers[c].returned[i] : i \in 1..Len(callers[c].returned) } :
            c \in Callers }

\* the outcomes of the calls that returned a handle
Returned == { r \in Outcomes : r.raised = "" }

\* C15: over every interleaving of the callers of open_doc, each resolved
\* path is parsed by fitz.open at most once (a parse that fails aside),
\* and all calls of open_doc for one resolved path return the same handle.
C15_EachPathOpenedOnce ==
    /\ \A i, j \in 1..Len(opens) :
          (opens[i] = opens[j] /\ opens[i] \notin CorruptFiles) => i = j
    /\ \A r1, r2 \in Returned : r1.key = r2.key => r1.doc = r2.doc

-----------------------------------------------------------------------------
(* Claims about detect_headings, checked under SpecDetect.                 *)

\* twice the median font size of the document in flight
DocMedian2 == Median2(FontSizes(doc))

\* the lines of the document that have text
DocLines == SpansInfo(doc)

\* the line has a text of 2 to 120 characters
Admissible(info) == Len(info.text) >= 2 /\ Len(info.text) <= 120

\* how many emitted entries have this title and level
EmittedAs(title, level) ==
    Cardinality({ k \in 1..Len(resp.headings) :
                    resp.headings[k].title = title /\ resp.headings[k].level = level })

\* the admissible lines whose size is at least 1.5 times the median
BigLines ==
    { i \in 1..Len(DocLines) :
        Admissible(DocLines[i]) /\ 4 * DocLines[i].size >= 3 * DocMedian2 }

\* the admissible lines whose size is in [1.25, 1.5) times the median
MidLines ==
    { i \in 1..Len(DocLines) :
        /\ Admissible(DocLines[i])
        /\ 8 * DocLines[i].size >= 5 * DocMedian2
        /\ 4 * DocLines[i].size < 3 * DocMedian2 }

\* C16: every entry detect_headings emits has a trimmed title of 2 to 120
\* characters; each admissible line of size >= 1.5 * M is emitted at level 1
\* and each admissible line of size in [1.25 * M, 1.5 * M) at level 2, M
\* being the median size of all spans; a document without spans gives an
\* empty outline.
C16_HeadingsBySizeBand ==
    Answered("detect_headings")
    => /\ \A k \in 1..Len(resp.headings) :
             /\ Len(resp.headings[k].title) >= 2
             /\ Len(resp.headings[k].title) <= 120
             /\ resp.headings[k].title = Strip(resp.headings[k].title)
       /\ FontSizes(doc) = <<>> => resp.headings = <<>>
       /\ FontSizes(doc) # <<>>
             => /\ \A i \in BigLines :
                      EmittedAs(DocLines[i].text, 1)
                        >= Cardinality({ j \in BigLines :
                                           DocLines[j].text = DocLines[i].text })
                /\ \A i \in MidLines :
                      EmittedAs(DocLines[i].text, 2)
                        >= Cardinality({ j \in MidLines :
                                           DocLines[j].text = DocLines[i].text })

\* over a 10-point body, a line of 15 points (exactly 1.5 * M) is emitted
\* at level 1 and a line of 13 points at level 2
C16_Witness ==
    /\ Answered("detect_headings")
    /\ FontSizes(doc) # <<>>
    /\ DocMedian2 = 20
    /\ Len(DocLines) = 4
    /\ DocLines[3].size = 15 /\ DocLines[4].size = 13
    /\ resp.headings = << [title |-> <<"A", "b">>, page |-> 1, level |-> 1],
                          [title |-> <<"A", "b">>, page |-> 1, level |-> 2] >>

\* the admissible lines the promotion rules name: bold, size >= M and
\* numbered or all-caps; or not bold, size >= M and numbered
PromotedLines ==
    { i \in 1..Len(DocLines) :
        /\ Admissible(DocLines[i])
        /\ 2 * DocLines[i].size >= DocMedian2
        /\ \/ NumberedHeadingMatch(DocLines[i].text)
           \/ DocLines[i].bold /\ UppercaseHeadingMatch(DocLines[i].text) }

\* C17: every admissible bold line of size >= M that matches the numbered
\* or the all-caps pattern, and every admissible line that is not bold, has
\* size >= M and matches the numbered pattern, is emitted at level 1, for
\* every size >= M, the sizes in [1.25 * M, 1.5 * M) included.
C17_PromotedLinesAreLevelOne ==
    (Answered("detect_headings") /\ FontSizes(doc) # <<>>)
    => \A i \in PromotedLines :
          EmittedAs(DocLines[i].text, 1)
            >= Cardinality({ j \in PromotedLines :
                               DocLines[j].text = DocLines[i].text })

-----------------------------------------------------------------------------
(* Claims about the tiers of find_section_pages, checked under SpecMatch.  *)

\* the entries that match the query under at least one of the three tiers
MatchingEntries == ExactEntries \cup ScoredEntries

\* the entries that match exactly or with a score above 0
SelectableEntries ==
    ExactEntries \cup { i \in ScoredEntries : EntryScore(i)[1] > 0 }

\* C18 as stated: find_section_pages returns not-found exactly when no
\* entry matches the query under any tier; when some entry matches, also
\* for a blank query, a range is returned.
C18_NotFoundIffNoTierMatches ==
    Answered("find_section_pages")
    => (resp.kind = "None" <=> MatchingEntries = {})

\* C18 as amended: find_section_pages returns not-found exactly when no
\* entry matches exactly and no entry matches by containment or word
\* overlap with a score above 0. A blank query is contained in every title
\* with score 0: it gives not-found unless some title is blank as well.
C18_NotFoundIffNoPositiveMatch ==
    Answered("find_section_pages")
    => /\ resp.kind = "None" <=> SelectableEntries = {}
       /\ MatchingEntries = {} => resp.kind = "None"
       /\ ReqQuery = <<>>
             => /\ ScoredEntries = 1..Len(req.toc)
                /\ resp.kind = "None" <=> ExactEntries = {}

\* a blank query against a Toc of two titled entries: both contain the
\* query, and the answer is not-found
C18_Witness ==
    /\ Answered("find_section_pages")
    /\ req.section_title = <<" ", "\t">>
    /\ Len(req.toc) = 2
    /\ ReqTitle(1) = <<"a">> /\ ReqTitle(2) = <<"a", " ", "b">>
    /\ IsContainEntry(1) /\ IsContainEntry(2)
    /\ resp.kind = "None"

-----------------------------------------------------------------------------
(* A further claim about pdf_search, checked under SpecSearch.             *)

\* C23: pdf_search answers "No results found" only when the query occurs
\* on no page; whenever there is a hit, for every max_results, 0 and
\* negative values included, the answer carries the header with the total
\* hit count and the per-page breakdown.
C23_NoResultsOnlyWithoutHits ==
    (Answered("pdf_search") /\ Strip(req.query) # <<>>)
    => /\ resp.kind = "no_results" => ReqTotalHits = 0
       /\ ReqTotalHits > 0
             => /\ resp.kind = "search"
                /\ resp.total_hits = ReqTotalHits
                /\ { resp.page_summary[k][1] : k \in 1..Len(resp.page_summary) }
                      = ReqHitPages

-----------------------------------------------------------------------------
(* A further claim about pdf_read_section, checked under SpecSection.      *)

\* C22: in every successful pdf_read_section answer, the section title of
\* the header is the title of the Toc entry find_section_pages matched,
\* also when several Toc entries start on the same page.
C22_HeaderNamesMatchedEntry ==
    (Answered("pdf_read_section") /\ resp.kind = "section")
    => /\ best_idx >= 0
       /\ resp.matched_title = get_toc(doc)[best_idx + 1].title


-----------------------------------------------------------------------------
(* A claim about the cache under tool calls, checked under SpecTools.      *)

\* the step is the end of an open_doc by caller c that raised
OpenFails(c) ==
    /\ callers[c].pc \in {"resolve", "open"}
    /\ callers'[c].pc = "tool"
    /\ callers'[c].opened.raised # ""

\* the step is the return of a tool call by caller c that had opened its
\* document and answers with an error
NavigationFails(c) ==
    /\ callers[c].pc = "tool"
    /\ callers'[c].pc = "idle"
    /\ callers[c].opened.raised = ""
    /\ resp'.kind \in {"ERROR_start_out_of_range", "ERROR_empty_query",
                       "ERROR_section_not_found"}

\* the step is a lookup by caller c of a key that is in the cache
LookupHits(c) ==
    /\ callers[c].pc = "lookup"
    /\ callers'[c].pc # "lookup"
    /\ callers[c].key \in DOMAIN doc_cache

\* a failing open_doc leaves the cache as it was; so does a failing
\* navigation call, whose entry is still there; a lookup that finds the key
\* returns the cached handle and opens nothing
FailuresLeaveCache ==
    \A c \in Callers :
        /\ OpenFails(c) => doc_cache' = doc_cache
        /\ NavigationFails(c)
              => /\ doc_cache' = doc_cache
                 /\ callers[c].opened.key \in DOMAIN doc_cache'
        /\ LookupHits(c)
              => /\ callers'[c].opened.doc = doc_cache[callers[c].key]
                 /\ opens' = opens
                 /\ doc_cache' = doc_cache

\* the cache changes only by gaining an entry for a path it did not hold,
\* at the store of an open_doc
ChangesOnlyByInsertion ==
    /\ \A k \in DOMAIN doc_cache :
          k \in DOMAIN doc_cache' /\ doc_cache'[k] = doc_cache[k]
    /\ doc_cache' # doc_cache
          => \E c \in Callers :
                /\ callers[c].pc = "store"
                /\ callers[c].key \notin DOMAIN doc_cache
                /\ doc_cache' = DictSet(doc_cache, callers[c].key, callers[c].doc)

\* C21: the cache changes only by inserting a handle on the first successful
\* open of a path; an open_doc that fails leaves it unchanged; a navigation
\* call that fails after a successful open leaves the entry of its path
\* present and identical, and later calls on the path are served from it
C21_CacheChangesOnlyByFirstOpen ==
    [][ChangesOnlyByInsertion /\ FailuresLeaveCache]_vars

=============================================================================
